---- MODULE Spec2Model ----
(***************************************************************************)
(* Session and device-binding enforcement of the LMS backend:             *)
(* AuthService (login, generateTokens, refreshAccessToken, logout,         *)
(* checkDeviceLimit), the authenticate / validateDevice / trackDevice      *)
(* middlewares and the DeviceService admin operations, over the tables     *)
(* users, refresh_tokens, user_devices and system_settings.                *)
(*                                                                         *)
(* Time is a discrete clock.  The two token lifetimes are whole numbers of *)
(* clock units; only their order (access shorter than refresh) is kept,    *)
(* not their ratio.  Columns no decision reads (device_name, ip_address,   *)
(* user_agent, last_active, last_login_at) are left out of the rows.       *)
(*                                                                         *)
(* The operations a client calls are explored for one account at a time,   *)
(* the account "client" chosen at the start; administrator operations      *)
(* target any account.                                                     *)
(***************************************************************************)
EXTENDS Integers, FiniteSets, Sequences, TLC

\* ------------------------------------------------------------------ bounds
NumFingerprints == 2
MaxTokens == 2
MaxTime == 3
MaxLoginCount == 1
MaxChanges == 1
MaxAdminOps == 2

\* --------------------------------------------------------- program constants
AccessTTL == 2
RefreshTTL == 3
DefaultMaxDevices == 1

\* ------------------------------------------------------------------ domains
Accounts == {"stu", "staff"}
NoAccount == "nobody"
Emails == Accounts \cup {NoAccount}
Fingerprints == 1..NumFingerprints
NoDevice == 0
NoRow == "none"
Procs == {"p1", "p2"}

VARIABLES
    users,          \* table users: account -> [role, status]
    settings,       \* table system_settings: setting_key -> setting_value or NoRow
    devices,        \* table user_devices: set of rows, unique on (user_id, device_id)
    tokens,         \* table refresh_tokens: set of rows
    refreshIssued,  \* refresh JWTs handed to clients
    accessIssued,   \* access JWTs handed to clients
    nextId,         \* next uuid of a refresh JWT
    now,            \* the clock
    client,         \* the account whose client calls the API in this run
    mismatched,     \* logins whose access JWT met a fingerprint mismatch
    admitted,       \* per account: fingerprints admitted by login under enforcement
    adminOps,       \* administrator operations performed so far
    flight          \* per process: the login call in flight (interleaved runs)

vars == <<users, settings, devices, tokens, refreshIssued, accessIssued,
          nextId, now, client, mismatched, admitted, adminOps, flight>>

\* ------------------------------------------------------------ pure helpers
ParseInt(s) == CASE s = "1" -> 1 [] s = "2" -> 2 [] s = "3" -> 3 [] OTHER -> 0

ToStr(n) == CASE n = 1 -> "1" [] n = 2 -> "2" [] n = 3 -> "3" [] OTHER -> "0"

BoolStr(b) == IF b THEN "true" ELSE "false"

\* mutant: a missing setting row counts as enabled
IsEnforcementEnabled_MissingOn(sett) == sett.device_tracking_enabled # "false"

\* AuthService.checkDeviceLimit / validateDevice: setting_value === 'true'
IsEnforcementEnabled(sett) == sett.device_tracking_enabled = "true"

\* AuthService.checkDeviceLimit: settingData ? parseInt(setting_value) : 1
MaxDevicesOf(sett) ==
    IF sett.max_devices_per_student # NoRow
    THEN ParseInt(sett.max_devices_per_student)
    ELSE DefaultMaxDevices

\* jwt.verify: a token is expired once the clock has reached its exp
JwtExpired(jwt, t) == t >= jwt.exp

\* mutant: the expiry filter is dropped
LiveRow_NoExpiry(r, t) == ~r.revoked

\* authenticate: .eq('revoked', false).gt('expires_at', now)
LiveRow(r, t) == (~r.revoked) /\ r.expires_at > t

LiveTokens(toks, u, t) == {r \in toks : r.user_id = u /\ LiveRow(r, t)}

DevicesOf(devs, u) == {d \in devs : d.user_id = u}

\* generateTokens: the deviceId claim is embedded for students with a deviceId
ClaimOf(role, deviceId) ==
    IF role = "student" /\ deviceId # NoDevice THEN deviceId ELSE NoDevice

\* login / resetStudentDevices: .delete().eq('user_id', id)
DeleteTokens(toks, u) == {r \in toks : r.user_id # u}

\* .update({ revoked: true }).eq('user_id', id)
RevokeAll(toks, u) ==
    {IF r.user_id = u THEN [r EXCEPT !.revoked = TRUE] ELSE r : r \in toks}

\* mutant: the flag is flipped, so a second logout restores the row
RevokeOne_Toggle(toks, jwt) ==
    {IF r.token = jwt THEN [r EXCEPT !.revoked = ~r.revoked] ELSE r : r \in toks}

\* logout: .update({ revoked: true }).eq('token', refreshToken)
RevokeOne(toks, jwt) ==
    {IF r.token = jwt THEN [r EXCEPT !.revoked = TRUE] ELSE r : r \in toks}

\* generateTokens: the two JWTs and the refresh_tokens row of one issuance
AccessJwt(u, role, deviceId, t, id) ==
    [userId |-> u, role |-> role, deviceId |-> ClaimOf(role, deviceId),
     exp |-> t + AccessTTL, login |-> id]

RefreshJwt(u, role, deviceId, t, id) ==
    [userId |-> u, role |-> role, deviceId |-> ClaimOf(role, deviceId),
     exp |-> t + RefreshTTL, tokenId |-> id]

TokenRow(u, role, deviceId, t, id) ==
    [token |-> RefreshJwt(u, role, deviceId, t, id), user_id |-> u,
     device_id |-> deviceId, expires_at |-> t + RefreshTTL, revoked |-> FALSE]

\* mutant: the known-device update runs before the blocked check
CheckDeviceLimit_KnownFirst(devs, sett, u, fp, t) ==
    LET mine == DevicesOf(devs, u)
        registered == \E d \in mine : d.device_id = fp
        blocked == \E d \in mine : d.device_id = fp /\ d.is_blocked
    IN  IF ~IsEnforcementEnabled(sett)
        THEN {[outcome |-> "ok", devices |-> devs]}
        ELSE IF registered
        THEN {[outcome |-> IF blocked THEN "DeviceBlocked" ELSE "ok",
               devices |-> {IF d.user_id = u /\ d.device_id = fp
                            THEN [d EXCEPT !.login_count = @ + 1]
                            ELSE d : d \in devs}]}
        ELSE IF Cardinality(mine) >= MaxDevicesOf(sett)
        THEN {[outcome |-> "DeviceLimitExceeded", devices |-> devs]}
        ELSE IF mine # {}
        THEN {[outcome |-> "ok",
               devices |-> {IF d.user_id = u
                            THEN [d EXCEPT !.device_changes_count = base.device_changes_count + 1]
                            ELSE d : d \in devs}] : base \in mine}
        ELSE {[outcome |-> "ok", devices |-> devs]}

\* AuthService.checkDeviceLimit: the set of results it can produce, each the
\* outcome and the user_devices table it leaves (t is new Date(), which only
\* the timestamp columns take)
CheckDeviceLimit(devs, sett, u, fp, t) ==
    LET mine == DevicesOf(devs, u)
        registered == \E d \in mine : d.device_id = fp
        blocked == \E d \in mine : d.device_id = fp /\ d.is_blocked
    IN  IF ~IsEnforcementEnabled(sett)
        THEN {[outcome |-> "ok", devices |-> devs]}
        ELSE IF blocked
        THEN {[outcome |-> "DeviceBlocked", devices |-> devs]}
        ELSE IF (~registered) /\ Cardinality(mine) >= MaxDevicesOf(sett)
        THEN {[outcome |-> "DeviceLimitExceeded", devices |-> devs]}
        ELSE IF registered
        THEN {[outcome |-> "ok",
               devices |-> {IF d.user_id = u /\ d.device_id = fp
                            THEN [d EXCEPT !.login_count = @ + 1]
                            ELSE d : d \in devs}]}
        ELSE IF mine # {}
        THEN {[outcome |-> "ok",
               devices |-> {IF d.user_id = u
                            THEN [d EXCEPT !.device_changes_count = base.device_changes_count + 1]
                            ELSE d : d \in devs}] : base \in mine}
        ELSE {[outcome |-> "ok", devices |-> devs]}

\* the counters checkDeviceLimit may increment stay within the model's bounds
CountersInBounds(devs, u, fp) ==
    \A d \in DevicesOf(devs, u) :
        /\ d.login_count < MaxLoginCount \/ d.device_id # fp
        /\ d.device_changes_count < MaxChanges

\* authenticate: the outcome of the middleware for an access JWT
Authenticate(c, usrs, toks, t) ==
    IF JwtExpired(c, t) THEN "TokenExpired"
    ELSE IF usrs[c.userId].status = "blocked" THEN "AccountBlocked"
    ELSE IF usrs[c.userId].role = "student" /\ LiveTokens(toks, c.userId, t) = {}
    THEN "SessionExpiredElsewhere"
    ELSE "ok"

\* validateDevice: the outcome for an authenticated request (req.user from the
\* JWT) and the x-device-id header
ValidateDevice(c, hdr, sett) ==
    IF c.role = "admin" \/ c.role = "teacher" THEN "ok"
    ELSE IF c.role # "student" THEN "ok"
    ELSE IF ~IsEnforcementEnabled(sett) THEN "ok"
    ELSE IF c.deviceId = NoDevice THEN "ok"
    ELSE IF hdr = NoDevice THEN "DeviceSessionInvalid"
    ELSE IF c.deviceId # hdr THEN "DeviceSessionInvalid"
    ELSE "ok"

\* mutant: a mismatch rejects the request but revokes nothing
ValidateDeviceTokens_NoRevoke(c, hdr, sett, toks) == toks

\* validateDevice: the revoke-all side effect of a fingerprint mismatch
ValidateDeviceTokens(c, hdr, sett, toks) ==
    IF /\ c.role = "student"
       /\ IsEnforcementEnabled(sett)
       /\ c.deviceId # NoDevice
       /\ hdr # NoDevice
       /\ c.deviceId # hdr
    THEN RevokeAll(toks, c.userId)
    ELSE toks

\* mutant: the stored row is not consulted, a verifying JWT is enough
RefreshOutcome_JwtOnly(rt, toks, t) ==
    IF JwtExpired(rt, t) THEN "InvalidRefreshToken" ELSE "ok"

\* refreshAccessToken: the outcome for a refresh JWT
RefreshOutcome(rt, toks, t) ==
    IF JwtExpired(rt, t) THEN "InvalidRefreshToken"
    ELSE IF ~\E r \in toks : r.token = rt /\ ~r.revoked THEN "SessionExpired"
    ELSE IF \E r \in toks : r.token = rt /\ (~r.revoked) /\ r.expires_at < t
    THEN "RefreshTokenExpired"
    ELSE "ok"

\* the access JWTs clients present: a later access JWT of the same login carries
\* the same claims and a later exp, so it takes the place of the earlier one
Reissue(issued, c) == {x \in issued : x.login # c.login} \cup {c}

\* the accounts administrator operations are called for
Targets == {client}

Idle == [pc |-> "idle", user |-> NoAccount, fp |-> NoDevice]

\* AuthService.login, lines 61-80: user lookup, blocked check, password check
LoginGate(usrs, email, pwOk) ==
    IF email = NoAccount THEN "InvalidCredentials"
    ELSE IF usrs[email].status = "blocked" THEN "AccountBlocked"
    ELSE IF ~pwOk THEN "InvalidCredentials"
    ELSE "ok"

\* mutant: the prior refresh tokens are left in place
RevokePrior_Keep(toks, role, u) == toks

\* mutant: the role test is dropped, every account loses its refresh tokens
RevokePrior_AllRoles(toks, role, u) == DeleteTokens(toks, u)

\* AuthService.login, lines 87-103: students lose every stored refresh token
RevokePrior(toks, role, u) ==
    IF role = "student" THEN DeleteTokens(toks, u) ELSE toks

\* mutant: the prior refresh tokens are deleted before the device check, so a
\* login the check rejects has already removed them
LoginResultsIn_RevokeFirst(usrs, sett, devs, toks, t, id, email, pwOk, fp) ==
    LET g == LoginGate(usrs, email, pwOk)
    IN  IF g # "ok"
        THEN {[outcome |-> g, devices |-> devs, tokens |-> toks]}
        ELSE LET role == usrs[email].role
                 checks == IF role = "student" /\ fp # NoDevice
                           THEN CheckDeviceLimit(devs, sett, email, fp, t)
                           ELSE {[outcome |-> "ok", devices |-> devs]}
             IN  {IF ch.outcome # "ok"
                  THEN [outcome |-> ch.outcome, devices |-> ch.devices,
                        tokens |-> RevokePrior(toks, role, email)]
                  ELSE [outcome |-> "ok", devices |-> ch.devices,
                        tokens |-> RevokePrior(toks, role, email) \cup
                                   {TokenRow(email, role, fp, t, id)}]
                  : ch \in checks}

\* AuthService.login run to completion on the given tables at time t, id the
\* uuid of the refresh JWT it issues: the set of results it can produce, each
\* the outcome and the tables it leaves
LoginResultsIn(usrs, sett, devs, toks, t, id, email, pwOk, fp) ==
    LET g == LoginGate(usrs, email, pwOk)
    IN  IF g # "ok"
        THEN {[outcome |-> g, devices |-> devs, tokens |-> toks]}
        ELSE LET role == usrs[email].role
                 checks == IF role = "student" /\ fp # NoDevice
                           THEN CheckDeviceLimit(devs, sett, email, fp, t)
                           ELSE {[outcome |-> "ok", devices |-> devs]}
             IN  {IF ch.outcome # "ok"
                  THEN [outcome |-> ch.outcome, devices |-> ch.devices,
                        tokens |-> toks]
                  ELSE [outcome |-> "ok", devices |-> ch.devices,
                        tokens |-> RevokePrior(toks, role, email) \cup
                                   {TokenRow(email, role, fp, t, id)}]
                  : ch \in checks}

\* AuthService.login with the delete of the prior refresh tokens answered with
\* or without an error: revokeError is logged and the login continues
LoginResultsFault(usrs, sett, devs, toks, t, id, email, pwOk, fp, revokeError) ==
    LET g == LoginGate(usrs, email, pwOk)
    IN  IF g # "ok"
        THEN {[outcome |-> g, devices |-> devs, tokens |-> toks]}
        ELSE LET role == usrs[email].role
                 checks == IF role = "student" /\ fp # NoDevice
                           THEN CheckDeviceLimit(devs, sett, email, fp, t)
                           ELSE {[outcome |-> "ok", devices |-> devs]}
                 kept == IF revokeError THEN toks ELSE RevokePrior(toks, role, email)
             IN  {IF ch.outcome # "ok"
                  THEN [outcome |-> ch.outcome, devices |-> ch.devices,
                        tokens |-> toks]
                  ELSE [outcome |-> "ok", devices |-> ch.devices,
                        tokens |-> kept \cup {TokenRow(email, role, fp, t, id)}]
                  : ch \in checks}

\* AuthService.login run to completion in the current state
LoginResults(email, pwOk, fp) ==
    LoginResultsIn(users, settings, devices, tokens, now, nextId, email, pwOk, fp)

\* refreshAccessToken: the access JWT minted from a refresh JWT
RenewedJwt(rt, t) ==
    [userId |-> rt.userId, role |-> rt.role,
     deviceId |-> ClaimOf(rt.role, rt.deviceId),
     exp |-> t + AccessTTL, login |-> rt.tokenId]

\* a protected route in the current state: authenticate, then validateDevice
\* where the route mounts it
RequestOutcome(c, hdr, validated) ==
    LET a == Authenticate(c, users, tokens, now)
    IN  IF a = "ok" /\ validated THEN ValidateDevice(c, hdr, settings) ELSE a

RequestTokens(c, hdr, validated) ==
    IF Authenticate(c, users, tokens, now) = "ok" /\ validated
    THEN ValidateDeviceTokens(c, hdr, settings, tokens)
    ELSE tokens

\* trackDevice: .upsert({...}, { onConflict: 'user_id,device_id' })
Upsert(devs, u, fp) ==
    IF \E d \in devs : d.user_id = u /\ d.device_id = fp
    THEN devs
    ELSE devs \cup {[user_id |-> u, device_id |-> fp, is_blocked |-> FALSE,
                     login_count |-> 0, device_changes_count |-> 0]}

\* mutant: the refresh tokens are deleted, not revoked
ForceLogoutStudentResult_Delete(usrs, devs, toks, u) ==
    IF usrs[u].role # "student"
    THEN [outcome |-> "NotStudent", devices |-> devs, tokens |-> toks]
    ELSE [outcome |-> "ok", devices |-> devs, tokens |-> DeleteTokens(toks, u)]

\* mutant: only the most recently issued refresh token of the account is revoked
ForceLogoutStudentResult_Newest(usrs, devs, toks, u) ==
    IF usrs[u].role # "student"
    THEN [outcome |-> "NotStudent", devices |-> devs, tokens |-> toks]
    ELSE [outcome |-> "ok", devices |-> devs,
          tokens |-> {IF /\ r.user_id = u
                         /\ \A x \in toks : x.user_id = u => x.token.tokenId <= r.token.tokenId
                      THEN [r EXCEPT !.revoked = TRUE] ELSE r : r \in toks}]

\* DeviceService.forceLogoutStudent: the outcome and the tables it leaves
ForceLogoutStudentResult(usrs, devs, toks, u) ==
    IF usrs[u].role # "student"
    THEN [outcome |-> "NotStudent", devices |-> devs, tokens |-> toks]
    ELSE [outcome |-> "ok", devices |-> devs, tokens |-> RevokeAll(toks, u)]

\* DeviceService.resetAllStudentDevices: the outcome, the count it reports and
\* the tables it leaves
ResetAllStudentDevicesResult(usrs, devs, toks) ==
    LET studentIds == {u \in DOMAIN usrs : usrs[u].role = "student"}
    IN  [outcome |-> "ok",
         count |-> Cardinality(studentIds),
         users |-> usrs,
         devices |-> {d \in devs : d.user_id \notin studentIds},
         tokens |-> {IF r.user_id \in studentIds
                     THEN [r EXCEPT !.revoked = TRUE] ELSE r : r \in toks}]

\* AuthService.resetDevice: the outcome and the user_devices table it leaves
ResetDeviceResult(usrs, devs, u) ==
    [outcome |-> "ok", devices |-> {d \in devs : d.user_id # u}]

\* mutant: blocking a device also revokes the refresh tokens of its account
BlockDeviceResult_Revoking(usrs, devs, toks, u, fp) ==
    IF ~\E d \in devs : d.user_id = u /\ d.device_id = fp
    THEN [outcome |-> "DeviceNotFound", devices |-> devs, tokens |-> toks]
    ELSE IF usrs[u].role # "student"
    THEN [outcome |-> "NotStudent", devices |-> devs, tokens |-> toks]
    ELSE [outcome |-> "ok",
          devices |-> {IF d.user_id = u /\ d.device_id = fp
                       THEN [d EXCEPT !.is_blocked = TRUE] ELSE d : d \in devs},
          tokens |-> RevokeAll(toks, u)]

\* DeviceService.blockDevice: the outcome and the tables it leaves; the id of a
\* user_devices row is its pair (user_id, device_id)
BlockDeviceResult(usrs, devs, toks, u, fp) ==
    IF ~\E d \in devs : d.user_id = u /\ d.device_id = fp
    THEN [outcome |-> "DeviceNotFound", devices |-> devs, tokens |-> toks]
    ELSE IF usrs[u].role # "student"
    THEN [outcome |-> "NotStudent", devices |-> devs, tokens |-> toks]
    ELSE [outcome |-> "ok",
          devices |-> {IF d.user_id = u /\ d.device_id = fp
                       THEN [d EXCEPT !.is_blocked = TRUE] ELSE d : d \in devs},
          tokens |-> toks]

\* DeviceService.getGlobalDeviceLimit: parseInt(setting_value) || 1
GetGlobalDeviceLimit(sett) ==
    IF sett.max_devices_per_student = NoRow THEN DefaultMaxDevices
    ELSE IF ParseInt(sett.max_devices_per_student) = 0 THEN DefaultMaxDevices
    ELSE ParseInt(sett.max_devices_per_student)

\* mutant: the limit is stored without the test for 1 or 2
SetGlobalDeviceLimitResult_NoValidation(sett, limit) ==
    [outcome |-> "ok",
     settings |-> IF sett.max_devices_per_student # NoRow
                  THEN [sett EXCEPT !.max_devices_per_student = ToStr(limit)]
                  ELSE sett]

\* DeviceService.setGlobalDeviceLimit: the outcome and the settings it leaves;
\* the write is an update by setting_key, which changes nothing and reports no
\* error when there is no such row
SetGlobalDeviceLimitResult(sett, limit) ==
    IF limit \notin {1, 2}
    THEN [outcome |-> "InvalidPolicyValue", settings |-> sett]
    ELSE [outcome |-> "ok",
          settings |-> IF sett.max_devices_per_student # NoRow
                       THEN [sett EXCEPT !.max_devices_per_student = ToStr(limit)]
                       ELSE sett]

\* mutant: an update by setting_key only, as setGlobalDeviceLimit does it
ToggleDeviceEnforcementSettings_UpdateOnly(sett, enabled) ==
    IF sett.device_tracking_enabled # NoRow
    THEN [sett EXCEPT !.device_tracking_enabled = BoolStr(enabled)]
    ELSE sett

\* DeviceService.toggleDeviceEnforcement: update the row when the select finds
\* it, insert it otherwise
ToggleDeviceEnforcementSettings(sett, enabled) ==
    IF sett.device_tracking_enabled # NoRow
    THEN [sett EXCEPT !.device_tracking_enabled = BoolStr(enabled)]
    ELSE [sett EXCEPT !.device_tracking_enabled = BoolStr(enabled)]

\* how the store answers one query: with a result, with an error object, or
\* with a rejected promise
StoreAnswers == {"ok", "error", "throw"}

\* authenticate, each of its two queries answered with or without an error
AuthenticateFault(c, usrs, toks, t, userError, tokenError) ==
    IF JwtExpired(c, t) THEN "TokenExpired"
    ELSE IF userError THEN "UserNotFound"
    ELSE IF usrs[c.userId].status = "blocked" THEN "AccountBlocked"
    ELSE IF /\ usrs[c.userId].role = "student"
            /\ tokenError \/ LiveTokens(toks, c.userId, t) = {}
    THEN "SessionExpiredElsewhere"
    ELSE "ok"

\* validateDevice, the settings query and the revoke-all update each answered
\* one of the three ways: an error object of the settings query leaves
\* enforcementSetting undefined, the result of the update is not looked at,
\* and a rejected promise lands in the catch block, which calls next()
ValidateDeviceFault(c, hdr, sett, settingFault, revokeFault) ==
    IF c.role = "admin" \/ c.role = "teacher" THEN "ok"
    ELSE IF c.role # "student" THEN "ok"
    ELSE IF settingFault = "throw" THEN "ok"
    ELSE IF settingFault = "error" \/ ~IsEnforcementEnabled(sett) THEN "ok"
    ELSE IF c.deviceId = NoDevice THEN "ok"
    ELSE IF hdr = NoDevice THEN "DeviceSessionInvalid"
    ELSE IF c.deviceId # hdr
    THEN IF revokeFault = "throw" THEN "ok" ELSE "DeviceSessionInvalid"
    ELSE "ok"

ValidateDeviceFaultTokens(c, hdr, sett, toks, settingFault, revokeFault) ==
    IF settingFault = "ok" /\ revokeFault = "ok"
    THEN ValidateDeviceTokens(c, hdr, sett, toks)
    ELSE toks

\* a protected route in the current state, with the answers of the store
RequestOutcomeFault(c, hdr, validated, userError, tokenError, settingFault, revokeFault) ==
    LET a == AuthenticateFault(c, users, tokens, now, userError, tokenError)
    IN  IF a = "ok" /\ validated
        THEN ValidateDeviceFault(c, hdr, settings, settingFault, revokeFault)
        ELSE a

RequestTokensFault(c, hdr, validated, userError, tokenError, settingFault, revokeFault) ==
    IF AuthenticateFault(c, users, tokens, now, userError, tokenError) = "ok" /\ validated
    THEN ValidateDeviceFaultTokens(c, hdr, settings, tokens, settingFault, revokeFault)
    ELSE tokens

\* mutant: a failing refresh token delete fails the whole reset
ResetStudentDevicesResult_AllOrFail(usrs, devs, toks, u, deviceError, tokenError, userUpdateError) ==
    IF usrs[u].role # "student"
    THEN [outcome |-> "NotStudent", users |-> usrs, devices |-> devs, tokens |-> toks]
    ELSE IF deviceError
    THEN [outcome |-> "ResetFailed", users |-> usrs, devices |-> devs, tokens |-> toks]
    ELSE IF tokenError
    THEN [outcome |-> "ResetFailed", users |-> usrs,
          devices |-> {d \in devs : d.user_id # u}, tokens |-> toks]
    ELSE [outcome |-> "ok",
          users |-> IF userUpdateError THEN usrs
                    ELSE [usrs EXCEPT ![u].status = "active"],
          devices |-> {d \in devs : d.user_id # u},
          tokens |-> DeleteTokens(toks, u)]

\* mutant: the refresh tokens are revoked, not deleted
ResetStudentDevicesResult_RevokeOnly(usrs, devs, toks, u, deviceError, tokenError, userUpdateError) ==
    IF usrs[u].role # "student"
    THEN [outcome |-> "NotStudent", users |-> usrs, devices |-> devs, tokens |-> toks]
    ELSE IF deviceError
    THEN [outcome |-> "ResetFailed", users |-> usrs, devices |-> devs, tokens |-> toks]
    ELSE [outcome |-> "ok",
          users |-> IF userUpdateError THEN usrs
                    ELSE [usrs EXCEPT ![u].status = "active"],
          devices |-> {d \in devs : d.user_id # u},
          tokens |-> IF tokenError THEN toks ELSE RevokeAll(toks, u)]

\* DeviceService.resetStudentDevices: the outcome and the tables it leaves, for
\* each of its three writes answered with or without an error
ResetStudentDevicesResult(usrs, devs, toks, u, deviceError, tokenError, userUpdateError) ==
    IF usrs[u].role # "student"
    THEN [outcome |-> "NotStudent", users |-> usrs, devices |-> devs, tokens |-> toks]
    ELSE IF deviceError
    THEN [outcome |-> "ResetFailed", users |-> usrs, devices |-> devs, tokens |-> toks]
    ELSE [outcome |-> "ok",
          users |-> IF userUpdateError THEN usrs
                    ELSE [usrs EXCEPT ![u].status = "active"],
          devices |-> {d \in devs : d.user_id # u},
          tokens |-> IF tokenError THEN toks ELSE DeleteTokens(toks, u)]

\* -------------------------------------------------------------------- Init
Init ==
    /\ \E c \in Accounts, r \in {"teacher", "admin"} :
          /\ client = c
          /\ c = "stu" => r = "teacher"
          /\ users = [a \in Accounts |->
                        [role |-> IF a = "stu" THEN "student" ELSE r,
                         status |-> "active"]]
    /\ settings \in [max_devices_per_student : {NoRow, "1"},
                     device_tracking_enabled : {NoRow}]
    /\ devices = {}
    /\ tokens = {}
    /\ refreshIssued = {}
    /\ accessIssued = {}
    /\ nextId = 1
    /\ now = 0
    /\ mismatched = {}
    /\ admitted = [a \in Accounts |-> {}]
    /\ adminOps = 0
    /\ flight = [p \in Procs |-> Idle]

\* ----------------------------------------------------------------- actions
\* POST /auth/login -> AuthService.login, run to completion
Login(email, pwOk, fp) ==
    /\ email \in {client, NoAccount}
    /\ nextId <= MaxTokens
    /\ email # NoAccount => CountersInBounds(devices, email, fp)
    /\ \E res \in LoginResults(email, pwOk, fp) :
         /\ devices' = res.devices
         /\ tokens' = res.tokens
         /\ IF res.outcome = "ok"
            THEN LET role == users[email].role
                 IN  /\ refreshIssued' = refreshIssued \cup
                            {RefreshJwt(email, role, fp, now, nextId)}
                     /\ accessIssued' = accessIssued \cup
                            {AccessJwt(email, role, fp, now, nextId)}
                     /\ nextId' = nextId + 1
                     /\ admitted' =
                          IF /\ role = "student"
                             /\ IsEnforcementEnabled(settings)
                             /\ admitted[email] # {} \/ DevicesOf(devices, email) = {}
                          THEN [admitted EXCEPT ![email] = @ \cup {fp}]
                          ELSE admitted
            ELSE UNCHANGED <<refreshIssued, accessIssued, nextId, admitted>>
    /\ UNCHANGED <<users, settings, now, client, mismatched, adminOps, flight>>

\* POST /auth/refresh -> AuthService.refreshAccessToken
Renew(rt) ==
    /\ accessIssued' = IF RefreshOutcome(rt, tokens, now) = "ok"
                       THEN Reissue(accessIssued, RenewedJwt(rt, now))
                       ELSE accessIssued
    /\ UNCHANGED <<users, settings, devices, tokens, refreshIssued, nextId, now,
                   client, mismatched, admitted, adminOps, flight>>

\* a protected route: authenticate, then validateDevice where the route mounts it
Request(c, hdr, validated) ==
    /\ tokens' = RequestTokens(c, hdr, validated)
    /\ mismatched' = IF tokens' # tokens THEN mismatched \cup {c.login} ELSE mismatched
    /\ UNCHANGED <<users, settings, devices, refreshIssued, accessIssued, nextId,
                   now, client, admitted, adminOps, flight>>

\* a route that mounts authenticate and trackDevice; fp is generateDeviceId(req)
TrackedRequest(c, fp) ==
    /\ devices' = IF Authenticate(c, users, tokens, now) = "ok"
                  THEN Upsert(devices, c.userId, fp)
                  ELSE devices
    /\ admitted' = IF devices' # devices
                   THEN [admitted EXCEPT ![c.userId] = {}]
                   ELSE admitted
    /\ UNCHANGED <<users, settings, tokens, refreshIssued, accessIssued, nextId,
                   now, client, mismatched, adminOps, flight>>

\* POST /auth/logout: authenticate, then AuthService.logout
Logout(c, rt) ==
    /\ tokens' = IF Authenticate(c, users, tokens, now) = "ok"
                 THEN RevokeOne(tokens, rt)
                 ELSE tokens
    /\ UNCHANGED <<users, settings, devices, refreshIssued, accessIssued, nextId,
                   now, client, mismatched, admitted, adminOps, flight>>

\* POST /auth/change-password: authenticate, then AuthService.changePassword
ChangePassword(c, pwOk) ==
    /\ tokens' = IF Authenticate(c, users, tokens, now) = "ok" /\ pwOk
                 THEN RevokeAll(tokens, c.userId)
                 ELSE tokens
    /\ UNCHANGED <<users, settings, devices, refreshIssued, accessIssued, nextId,
                   now, client, mismatched, admitted, adminOps, flight>>

\* UserService.toggleUserStatus
ToggleUserStatus(u, status) ==
    /\ adminOps < MaxAdminOps
    /\ adminOps' = adminOps + 1
    /\ users' = [users EXCEPT ![u].status = status]
    /\ UNCHANGED <<settings, devices, tokens, refreshIssued, accessIssued, nextId,
                   now, client, mismatched, admitted, flight>>

\* DeviceService.forceLogoutStudent
ForceLogoutStudent(u) ==
    /\ adminOps < MaxAdminOps
    /\ adminOps' = adminOps + 1
    /\ tokens' = ForceLogoutStudentResult(users, devices, tokens, u).tokens
    /\ devices' = ForceLogoutStudentResult(users, devices, tokens, u).devices
    /\ UNCHANGED <<users, settings, refreshIssued, accessIssued, nextId,
                   now, client, mismatched, admitted, flight>>

\* DeviceService.resetStudentDevices
ResetStudentDevices(u) ==
    /\ adminOps < MaxAdminOps
    /\ adminOps' = adminOps + 1
    /\ LET res == ResetStudentDevicesResult(users, devices, tokens, u,
                                             FALSE, FALSE, FALSE)
       IN  /\ users' = res.users
           /\ devices' = res.devices
           /\ tokens' = res.tokens
           /\ admitted' = IF res.outcome = "ok"
                          THEN [admitted EXCEPT ![u] = {}]
                          ELSE admitted
    /\ UNCHANGED <<settings, refreshIssued, accessIssued, nextId, now, client,
                   mismatched, flight>>

\* DeviceService.resetAllStudentDevices
ResetAllStudentDevices ==
    LET studentIds == {u \in Accounts : users[u].role = "student"}
        res == ResetAllStudentDevicesResult(users, devices, tokens)
    IN  /\ adminOps < MaxAdminOps
        /\ adminOps' = adminOps + 1
        /\ devices' = res.devices
        /\ tokens' = res.tokens
        /\ admitted' = [u \in Accounts |-> IF u \in studentIds THEN {} ELSE admitted[u]]
        /\ UNCHANGED <<users, settings, refreshIssued, accessIssued, nextId, now,
                       client, mismatched, flight>>

\* AuthService.resetDevice (POST /users/:id/reset-device)
ResetDevice(u) ==
    /\ adminOps < MaxAdminOps
    /\ adminOps' = adminOps + 1
    /\ devices' = ResetDeviceResult(users, devices, u).devices
    /\ admitted' = [admitted EXCEPT ![u] = {}]
    /\ UNCHANGED <<users, settings, tokens, refreshIssued, accessIssued, nextId, now,
                   client, mismatched, flight>>

\* DeviceService.setGlobalDeviceLimit: an update of the row, no insert
SetGlobalDeviceLimit(limit) ==
    /\ adminOps < MaxAdminOps
    /\ adminOps' = adminOps + 1
    /\ settings' = SetGlobalDeviceLimitResult(settings, limit).settings
    /\ admitted' = IF settings' # settings THEN [u \in Accounts |-> {}] ELSE admitted
    /\ UNCHANGED <<users, devices, tokens, refreshIssued, accessIssued, nextId, now,
                   client, mismatched, flight>>

\* DeviceService.toggleDeviceEnforcement: update the row, or insert it
ToggleDeviceEnforcement(enabled) ==
    /\ adminOps < MaxAdminOps
    /\ adminOps' = adminOps + 1
    /\ settings' = ToggleDeviceEnforcementSettings(settings, enabled)
    /\ admitted' = IF settings' # settings THEN [u \in Accounts |-> {}] ELSE admitted
    /\ UNCHANGED <<users, devices, tokens, refreshIssued, accessIssued, nextId, now,
                   client, mismatched, flight>>

\* DeviceService.blockDevice; the row id is the pair (user_id, device_id)
BlockDevice(u, fp) ==
    /\ adminOps < MaxAdminOps
    /\ adminOps' = adminOps + 1
    /\ devices' = BlockDeviceResult(users, devices, tokens, u, fp).devices
    /\ tokens' = BlockDeviceResult(users, devices, tokens, u, fp).tokens
    /\ UNCHANGED <<users, settings, refreshIssued, accessIssued, nextId, now,
                   client, mismatched, admitted, flight>>

\* the clock advances
Tick ==
    /\ now < MaxTime
    /\ now' = now + 1
    /\ UNCHANGED <<users, settings, devices, tokens, refreshIssued, accessIssued,
                   nextId, client, mismatched, admitted, adminOps, flight>>

Next ==
    \/ \E e \in Emails, pw \in BOOLEAN, fp \in Fingerprints : Login(e, pw, fp)
    \/ \E rt \in refreshIssued : Renew(rt)
    \/ \E c \in accessIssued, hdr \in Fingerprints \cup {NoDevice}, v \in BOOLEAN :
          Request(c, hdr, v)
    \/ \E c \in accessIssued, fp \in Fingerprints : TrackedRequest(c, fp)
    \/ \E c \in accessIssued, rt \in refreshIssued : Logout(c, rt)
    \/ \E c \in accessIssued, pw \in BOOLEAN : ChangePassword(c, pw)
    \/ \E u \in Targets, s \in {"active", "blocked"} : ToggleUserStatus(u, s)
    \/ \E u \in Targets : ForceLogoutStudent(u)
    \/ \E u \in Targets : ResetStudentDevices(u)
    \/ ResetAllStudentDevices
    \/ \E u \in Targets : ResetDevice(u)
    \/ \E n \in 0..3 : SetGlobalDeviceLimit(n)
    \/ \E b \in BOOLEAN : ToggleDeviceEnforcement(b)
    \/ \E u \in Targets, fp \in Fingerprints : BlockDevice(u, fp)
    \/ Tick

Spec == Init /\ [][Next]_vars

\* ------------------------------------------- interleaved login calls
\* AuthService.login up to its first write: user lookup, checks, checkDeviceLimit
LoginBegin(p, email, pwOk, fp) ==
    /\ flight[p].pc = "idle"
    /\ email = client
    /\ CountersInBounds(devices, email, fp)
    /\ LET g == LoginGate(users, email, pwOk)
           checks == IF g = "ok" /\ users[email].role = "student" /\ fp # NoDevice
                     THEN CheckDeviceLimit(devices, settings, email, fp, now)
                     ELSE {[outcome |-> g, devices |-> devices]}
       IN  \E ch \in checks :
             /\ devices' = ch.devices
             /\ flight' = [flight EXCEPT ![p] =
                   [pc |-> IF ch.outcome = "ok" THEN "revoke" ELSE "failed",
                    user |-> email, fp |-> fp]]
    /\ UNCHANGED <<users, settings, tokens, refreshIssued, accessIssued, nextId, now,
                   client, mismatched, admitted, adminOps>>

\* AuthService.login, lines 89-103: the delete of the prior refresh tokens
LoginRevoke(p) ==
    /\ flight[p].pc = "revoke"
    /\ tokens' = RevokePrior(tokens, users[flight[p].user].role, flight[p].user)
    /\ flight' = [flight EXCEPT ![p].pc = "issue"]
    /\ UNCHANGED <<users, settings, devices, refreshIssued, accessIssued, nextId, now,
                   client, mismatched, admitted, adminOps>>

\* AuthService.generateTokens: the insert of the new refresh token, and the return
LoginIssue(p) ==
    /\ flight[p].pc = "issue"
    /\ nextId <= MaxTokens
    /\ LET u == flight[p].user
           role == users[u].role
           fp == flight[p].fp
       IN  /\ tokens' = tokens \cup {TokenRow(u, role, fp, now, nextId)}
           /\ refreshIssued' = refreshIssued \cup {RefreshJwt(u, role, fp, now, nextId)}
           /\ accessIssued' = accessIssued \cup {AccessJwt(u, role, fp, now, nextId)}
    /\ nextId' = nextId + 1
    /\ flight' = [flight EXCEPT ![p].pc = "done"]
    /\ UNCHANGED <<users, settings, devices, now, client, mismatched, admitted,
                   adminOps>>

RaceNext ==
    \/ \E p \in Procs, e \in Accounts, pw \in BOOLEAN, fp \in Fingerprints :
          LoginBegin(p, e, pw, fp)
    \/ \E p \in Procs : LoginRevoke(p)
    \/ \E p \in Procs : LoginIssue(p)
    \/ \E b \in BOOLEAN : ToggleDeviceEnforcement(b)
    \/ Tick

SpecRace == Init /\ [][RaceNext]_vars

\* ------------------------- login calls interleaved with revocation sweeps
\* the steps of two login calls, and between them the single update of
\* forceLogoutStudent and the revoke-all update of validateDevice
SweepNext ==
    \/ \E p \in Procs, e \in Accounts, pw \in BOOLEAN, fp \in Fingerprints :
          LoginBegin(p, e, pw, fp)
    \/ \E p \in Procs : LoginRevoke(p)
    \/ \E p \in Procs : LoginIssue(p)
    \/ \E u \in Targets : ForceLogoutStudent(u)
    \/ \E c \in accessIssued, hdr \in Fingerprints \cup {NoDevice}, v \in BOOLEAN :
          Request(c, hdr, v)
    \/ \E b \in BOOLEAN : ToggleDeviceEnforcement(b)
    \/ Tick

SpecSweep == Init /\ [][SweepNext]_vars

\* ------------------------------------------- the store answering with errors
\* a protected route while queries of the two middlewares fail
FaultyRequest(c, hdr, validated, userError, tokenError, settingFault, revokeFault) ==
    /\ tokens' = RequestTokensFault(c, hdr, validated, userError, tokenError,
                                    settingFault, revokeFault)
    /\ mismatched' = IF tokens' # tokens THEN mismatched \cup {c.login} ELSE mismatched
    /\ UNCHANGED <<users, settings, devices, refreshIssued, accessIssued, nextId,
                   now, client, admitted, adminOps, flight>>

\* POST /auth/login while the delete of the prior refresh tokens fails
FaultyLogin(email, pwOk, fp, revokeError) ==
    /\ email = client
    /\ nextId <= MaxTokens
    /\ CountersInBounds(devices, email, fp)
    /\ \E res \in LoginResultsFault(users, settings, devices, tokens, now, nextId,
                                      email, pwOk, fp, revokeError) :
         /\ devices' = res.devices
         /\ tokens' = res.tokens
         /\ IF res.outcome = "ok"
            THEN LET role == users[email].role
                 IN  /\ refreshIssued' = refreshIssued \cup
                            {RefreshJwt(email, role, fp, now, nextId)}
                     /\ accessIssued' = accessIssued \cup
                            {AccessJwt(email, role, fp, now, nextId)}
                     /\ nextId' = nextId + 1
            ELSE UNCHANGED <<refreshIssued, accessIssued, nextId>>
    /\ UNCHANGED <<users, settings, now, client, mismatched, admitted, adminOps,
                   flight>>

\* DeviceService.resetStudentDevices while some of its writes fail
ResetStudentDevicesFault(u, deviceError, tokenError, userUpdateError) ==
    /\ adminOps < MaxAdminOps
    /\ adminOps' = adminOps + 1
    /\ LET res == ResetStudentDevicesResult(users, devices, tokens, u,
                                             deviceError, tokenError, userUpdateError)
       IN  /\ users' = res.users
           /\ devices' = res.devices
           /\ tokens' = res.tokens
           /\ admitted' = IF res.outcome = "ok"
                          THEN [admitted EXCEPT ![u] = {}]
                          ELSE admitted
    /\ UNCHANGED <<settings, refreshIssued, accessIssued, nextId, now, client,
                   mismatched, flight>>

FaultNext ==
    \/ \E e \in Emails, pw \in BOOLEAN, fp \in Fingerprints : Login(e, pw, fp)
    \/ \E e \in Accounts, pw \in BOOLEAN, fp \in Fingerprints, re \in BOOLEAN :
          FaultyLogin(e, pw, fp, re)
    \/ \E c \in accessIssued, fp \in Fingerprints : TrackedRequest(c, fp)
    \/ \E c \in accessIssued, hdr \in Fingerprints \cup {NoDevice}, v \in BOOLEAN,
          ue \in BOOLEAN, te \in BOOLEAN, sf \in StoreAnswers, rf \in StoreAnswers :
          FaultyRequest(c, hdr, v, ue, te, sf, rf)
    \/ \E u \in Targets, de \in BOOLEAN, te \in BOOLEAN, ue \in BOOLEAN :
          ResetStudentDevicesFault(u, de, te, ue)
    \/ \E u \in Targets, st \in {"active", "blocked"} : ToggleUserStatus(u, st)
    \/ \E b \in BOOLEAN : ToggleDeviceEnforcement(b)
    \/ Tick

SpecFault == Init /\ [][FaultNext]_vars

\* ------------------------------------------------------------------ claims
Students == {a \in Accounts : users[a].role = "student"}

Staff == {a \in Accounts : users[a].role # "student"}

\* the settings store says enforcement is on / off (a missing row is off)
EnforcementOn == settings.device_tracking_enabled = "true"

EnforcementOff == settings.device_tracking_enabled \in {NoRow, "false"}

\* the rows of an account that are neither revoked nor at or past their expiry
LiveNow(toks, a) == {r \in toks : r.user_id = a /\ (~r.revoked) /\ r.expires_at > now}

FingerprintsOf(devs, a) == {d.device_id : d \in DevicesOf(devs, a)}

\* C1: whatever operations ran before, a student account never has more than
\* one refresh_tokens row that is non-revoked and non-expired, and a login that
\* returns successfully from any reachable state leaves at most one such row.
C1_SingleSession ==
    \A a \in Students :
        /\ Cardinality(LiveNow(tokens, a)) <= 1
        /\ \A fp \in Fingerprints : \A r \in LoginResults(a, TRUE, fp) :
              r.outcome = "ok" => Cardinality(LiveNow(r.tokens, a)) <= 1

\* C1 witness: a student has completed two logins and holds exactly one live row
C1_Witness ==
    \E a \in Students :
        /\ Cardinality({rt \in refreshIssued : rt.userId = a}) >= 2
        /\ Cardinality(LiveNow(tokens, a)) = 1

\* C2: once two interleaved login calls of one student have both completed, the
\* account has at most one live refresh_tokens row.
C2_RaceSingleSession ==
    (\A p \in Procs : flight[p].pc = "done")
        => \A a \in Students : Cardinality(LiveNow(tokens, a)) <= 1

\* C3: with enforcement on and the limit N, once a student that had no device
\* rows has been admitted by login from N distinct fingerprints in a row, a
\* login from a further fingerprint fails with DeviceLimitExceeded and leaves
\* the account's set of registered fingerprints as it was.
C3_DeviceLimit ==
    \A a \in Students : \A fp \in Fingerprints \ admitted[a] :
        (/\ EnforcementOn
         /\ users[a].status = "active"
         /\ Cardinality(admitted[a]) = MaxDevicesOf(settings))
        => \A r \in LoginResults(a, TRUE, fp) :
              /\ r.outcome = "DeviceLimitExceeded"
              /\ FingerprintsOf(r.devices, a) = FingerprintsOf(devices, a)

\* C4: with enforcement on, a student login admitted from a fingerprint without
\* a device row, while the account is below the limit, leaves a device row for
\* (account, fingerprint).
C4_RecordCreated ==
    \A a \in Students : \A fp \in Fingerprints :
        (/\ EnforcementOn
         /\ fp \notin FingerprintsOf(devices, a)
         /\ Cardinality(DevicesOf(devices, a)) < MaxDevicesOf(settings))
        => \A r \in LoginResults(a, TRUE, fp) :
              r.outcome = "ok" => fp \in FingerprintsOf(r.devices, a)

\* renew answers SessionExpired for a refresh JWT that still verifies, and the
\* 401 for an invalid or expired JWT once it no longer does
RefusedByRenew(rt, toks) ==
    IF JwtExpired(rt, now)
    THEN RefreshOutcome(rt, toks, now) = "InvalidRefreshToken"
    ELSE RefreshOutcome(rt, toks, now) = "SessionExpired"

\* C5: for an access JWT a student login bound to fingerprint F, while its
\* session authenticates: a validated request with header F passes and revokes
\* nothing; with enforcement on, a validated request with another header F'
\* fails with DeviceSessionInvalid and the refresh JWT of that login is refused
\* by renew right after it; and in every later state renew refuses the refresh
\* JWT of a login whose access JWT met a mismatch (SessionExpired while the
\* refresh JWT still verifies, the 401 for an expired JWT afterwards).
C5_BindingRoundTrip ==
    /\ \A c \in accessIssued :
         (c.role = "student" /\ c.deviceId # NoDevice
            /\ Authenticate(c, users, tokens, now) = "ok")
         => /\ RequestOutcome(c, c.deviceId, TRUE) = "ok"
            /\ RequestTokens(c, c.deviceId, TRUE) = tokens
            /\ EnforcementOn =>
                 \A hdr \in Fingerprints \ {c.deviceId} :
                    /\ RequestOutcome(c, hdr, TRUE) = "DeviceSessionInvalid"
                    /\ \A rt \in refreshIssued :
                         rt.tokenId = c.login =>
                            RefusedByRenew(rt, RequestTokens(c, hdr, TRUE))
    /\ \A rt \in refreshIssued :
         rt.tokenId \in mismatched => RefusedByRenew(rt, tokens)

\* C5 witness: a mismatch has revoked the row of the login whose access JWT was
\* presented, and renew with that login's refresh JWT answers SessionExpired
C5_Witness ==
    \E rt \in refreshIssued :
        /\ rt.tokenId \in mismatched
        /\ \E r \in tokens : r.token = rt /\ r.revoked
        /\ RefreshOutcome(rt, tokens, now) = "SessionExpired"

\* C6: once a student has completed a later login, a request that presents the
\* access JWT of an earlier login is rejected, whatever header it carries and
\* whether or not the route validates the device.
C6_EarlierLoginRejected ==
    \A c1 \in accessIssued : \A c2 \in accessIssued :
        (c1.role = "student" /\ c1.userId = c2.userId /\ c1.login < c2.login)
        => \A hdr \in Fingerprints \cup {NoDevice} : \A v \in BOOLEAN :
              RequestOutcome(c1, hdr, v) # "ok"

\* C7 as stated: for a student whose access JWT verifies, authenticate answers
\* SessionExpiredElsewhere whenever the account has no live row; the check is
\* not applied to teachers and admins.
C7_Original ==
    \A c \in accessIssued :
        /\ (c.role = "student" /\ ~JwtExpired(c, now) /\ LiveNow(tokens, c.userId) = {})
             => Authenticate(c, users, tokens, now) = "SessionExpiredElsewhere"
        /\ c.role # "student"
             => Authenticate(c, users, tokens, now) # "SessionExpiredElsewhere"

\* C7 as amended: for a student that is not blocked and whose access JWT
\* verifies, authenticate answers SessionExpiredElsewhere exactly when the
\* account has no live row (a blocked account is answered AccountBlocked
\* first); a teacher or admin with no live row is never answered
\* SessionExpiredElsewhere.
C7_LivenessCheck ==
    \A c \in accessIssued :
        /\ (c.role = "student" /\ ~JwtExpired(c, now)
              /\ users[c.userId].status = "active")
             => (Authenticate(c, users, tokens, now) = "SessionExpiredElsewhere"
                   <=> LiveNow(tokens, c.userId) = {})
        /\ (c.role # "student" /\ ~JwtExpired(c, now)
              /\ users[c.userId].status = "active")
             => Authenticate(c, users, tokens, now) = "ok"

\* C7 witness: an active student presents a verifying access JWT while the only
\* row of the account is unrevoked but expired
C7_Witness ==
    \E c \in accessIssued :
        /\ c.role = "student" /\ ~JwtExpired(c, now)
        /\ users[c.userId].status = "active"
        /\ \E r \in tokens : r.user_id = c.userId /\ ~r.revoked
        /\ LiveNow(tokens, c.userId) = {}
        /\ Authenticate(c, users, tokens, now) = "SessionExpiredElsewhere"

\* C8: while the settings store says enforcement is off, no login is answered
\* DeviceLimitExceeded or DeviceBlocked, and a login of an active student with
\* the right password succeeds from every fingerprint, also at the device cap
\* and from a blocked device.
C8_KillSwitch ==
    EnforcementOff =>
        \A e \in Emails : \A pw \in BOOLEAN : \A fp \in Fingerprints :
            \A r \in LoginResults(e, pw, fp) :
                /\ r.outcome \notin {"DeviceLimitExceeded", "DeviceBlocked"}
                /\ (e \in Students /\ pw /\ users[e].status = "active")
                     => r.outcome = "ok" /\ r.devices = devices

\* C8 witness: enforcement is off, the student is at the cap with a blocked
\* device row, and its live session was issued to a fingerprint with no row
C8_Witness ==
    \E a \in Students :
        /\ EnforcementOff
        /\ Cardinality(DevicesOf(devices, a)) >= MaxDevicesOf(settings)
        /\ \E d \in DevicesOf(devices, a) : d.is_blocked
        /\ \E r \in LiveNow(tokens, a) :
              /\ r.device_id \notin FingerprintsOf(devices, a)
              /\ r.token.tokenId = nextId - 1

\* C9: for a teacher or admin, no login is answered DeviceLimitExceeded or
\* DeviceBlocked, a successful login keeps every stored refresh token row as it
\* was, and no request is answered DeviceSessionInvalid or revokes a row,
\* whatever the header, the route and the settings.
C9_StaffExempt ==
    \A a \in Staff :
        /\ \A pw \in BOOLEAN : \A fp \in Fingerprints : \A r \in LoginResults(a, pw, fp) :
              /\ r.outcome \notin {"DeviceLimitExceeded", "DeviceBlocked"}
              /\ tokens \subseteq r.tokens
              /\ r.devices = devices
        /\ \A c \in accessIssued : c.userId = a =>
              \A hdr \in Fingerprints \cup {NoDevice} : \A v \in BOOLEAN :
                  /\ RequestOutcome(c, hdr, v) # "DeviceSessionInvalid"
                  /\ RequestTokens(c, hdr, v) = tokens

\* C9 witness: with enforcement on, a teacher or admin holds two live sessions
\* issued to two different fingerprints
C9_Witness ==
    \E a \in Staff :
        /\ EnforcementOn
        /\ \E r1 \in LiveNow(tokens, a) : \E r2 \in LiveNow(tokens, a) :
              r1.device_id # r2.device_id
        /\ \E c \in accessIssued : c.userId = a /\ ~JwtExpired(c, now)

\* C10: with enforcement on, a login of an active student with the right
\* password from a fingerprint whose device row is blocked is answered
\* DeviceBlocked, whatever the device count, and changes no device row (no
\* login_count update) and no refresh token row.
C10_BlockedFirst ==
    \A a \in Students : \A fp \in Fingerprints :
        (/\ EnforcementOn
         /\ users[a].status = "active"
         /\ \E d \in DevicesOf(devices, a) : d.device_id = fp /\ d.is_blocked)
        => \A r \in LoginResults(a, TRUE, fp) :
              /\ r.outcome = "DeviceBlocked"
              /\ r.devices = devices
              /\ r.tokens = tokens

\* C10 witness: enforcement is on and an active student has a blocked device
\* row while the account is at the device limit
C10_Witness ==
    \E a \in Students : \E fp \in Fingerprints :
        /\ EnforcementOn
        /\ users[a].status = "active"
        /\ \E d \in DevicesOf(devices, a) : d.device_id = fp /\ d.is_blocked
        /\ Cardinality(DevicesOf(devices, a)) >= MaxDevicesOf(settings)
        /\ \A r \in LoginResults(a, TRUE, fp) : r.outcome = "DeviceBlocked"

\* C11: for a student in any reachable state, resetStudentDevices called twice
\* in a row (the store answering without error) returns success both times and
\* leaves the account without device rows and without refresh token rows
\* after the first call and after the second.
C11_ResetIdempotent ==
    \A a \in Students :
        LET r1 == ResetStudentDevicesResult(users, devices, tokens, a,
                                            FALSE, FALSE, FALSE)
            r2 == ResetStudentDevicesResult(r1.users, r1.devices, r1.tokens, a,
                                            FALSE, FALSE, FALSE)
        IN  /\ r1.outcome = "ok" /\ r2.outcome = "ok"
            /\ DevicesOf(r1.devices, a) = {} /\ DevicesOf(r2.devices, a) = {}
            /\ {r \in r1.tokens : r.user_id = a} = {}
            /\ {r \in r2.tokens : r.user_id = a} = {}
            /\ r2.users = r1.users

\* C11 witness: a blocked student with a device row and a refresh token row,
\* a state in which each of the three writes of the reset has work to do
C11_Witness ==
    \E a \in Students :
        /\ users[a].status = "blocked"
        /\ DevicesOf(devices, a) # {}
        /\ \E r \in tokens : r.user_id = a

\* the stored row of a refresh JWT, when it is there and not revoked
UnrevokedRow(toks, rt) == {r \in toks : r.token = rt /\ ~r.revoked}

\* C12: renew answers with an access JWT only if a refresh_tokens row with that
\* exact token value exists, is not revoked and is not past its stored expiry;
\* and for a refresh JWT that still verifies and whose row has been revoked or
\* deleted, renew answers the 401 SessionExpired.
C12_RenewRevocation ==
    \A rt \in refreshIssued :
        /\ RefreshOutcome(rt, tokens, now) = "ok"
             => \E r \in UnrevokedRow(tokens, rt) : ~(r.expires_at < now)
        /\ (~JwtExpired(rt, now) /\ UnrevokedRow(tokens, rt) = {})
             => RefreshOutcome(rt, tokens, now) = "SessionExpired"

\* C12 witness: two refresh JWTs that still verify, the row of one deleted (a
\* later student login or a reset) and the row of the other revoked, both
\* refused with SessionExpired
C12_Witness ==
    \E rt1 \in refreshIssued : \E rt2 \in refreshIssued :
        /\ ~JwtExpired(rt1, now) /\ ~JwtExpired(rt2, now)
        /\ ~\E r \in tokens : r.token = rt1
        /\ \E r \in tokens : r.token = rt2 /\ r.revoked
        /\ RefreshOutcome(rt1, tokens, now) = "SessionExpired"
        /\ RefreshOutcome(rt2, tokens, now) = "SessionExpired"

\* C13: while an account is blocked, no login, no renew and no request of the
\* account succeeds, and a blocked login leaves the device rows and the
\* refresh token rows as they were.
C13_BlockedAccount ==
    \A a \in Accounts : users[a].status = "blocked" =>
        /\ \A pw \in BOOLEAN : \A fp \in Fingerprints :
              \A r \in LoginResults(a, pw, fp) :
                 r.outcome # "ok" /\ r.devices = devices /\ r.tokens = tokens
        /\ \A rt \in refreshIssued :
              rt.userId = a => RefreshOutcome(rt, tokens, now) # "ok"
        /\ \A c \in accessIssued : c.userId = a =>
              \A hdr \in Fingerprints \cup {NoDevice} : \A v \in BOOLEAN :
                  RequestOutcome(c, hdr, v) # "ok"

\* C14: for a student whose access JWT verifies, a request is refused, whatever
\* the store answers to the other queries, when the account has no live row,
\* and, on a route that validates the device with enforcement read as on,
\* when the JWT is bound to a fingerprint and the header is missing or
\* different, also when the revoke-all update fails or throws.
C14_FailClosed ==
    \A c \in accessIssued :
        (c.role = "student" /\ ~JwtExpired(c, now)) =>
            /\ LiveNow(tokens, c.userId) = {} =>
                  \A hdr \in Fingerprints \cup {NoDevice} : \A v \in BOOLEAN :
                  \A sf \in StoreAnswers : \A rf \in StoreAnswers :
                     RequestOutcomeFault(c, hdr, v, FALSE, FALSE, sf, rf) # "ok"
            /\ (EnforcementOn /\ c.deviceId # NoDevice) =>
                  \A hdr \in (Fingerprints \cup {NoDevice}) \ {c.deviceId} :
                  \A rf \in StoreAnswers :
                     RequestOutcomeFault(c, hdr, TRUE, FALSE, FALSE, "ok", rf) # "ok"

\* C15: for an active student whose access JWT verifies, a request proceeds
\* when the live-row query of authenticate answers with an error, and
\* validateDevice lets the request through when the enforcement-setting query
\* answers with an error or throws.
C15_FailOpen ==
    \A c \in accessIssued :
        (c.role = "student" /\ ~JwtExpired(c, now)
           /\ users[c.userId].status = "active") =>
            /\ AuthenticateFault(c, users, tokens, now, FALSE, TRUE) = "ok"
            /\ \A hdr \in Fingerprints \cup {NoDevice} :
               \A sf \in {"error", "throw"} : \A rf \in StoreAnswers :
                  ValidateDeviceFault(c, hdr, settings, sf, rf) = "ok"

\* C19: for a student, when the delete of the device rows succeeds, the reset
\* returns success with every device row of the account gone, also when the
\* refresh token delete or the status update fails (the failed write then
\* leaves its table as it was); when the delete of the device rows fails, the
\* reset fails and device rows, refresh token rows and users stay as they were.
C19_ResetBestEffort ==
    \A a \in Students : \A te \in BOOLEAN : \A ue \in BOOLEAN :
        LET done == ResetStudentDevicesResult(users, devices, tokens, a, FALSE, te, ue)
            failed == ResetStudentDevicesResult(users, devices, tokens, a, TRUE, te, ue)
        IN  /\ done.outcome = "ok"
            /\ DevicesOf(done.devices, a) = {}
            /\ te => done.tokens = tokens
            /\ ue => done.users = users
            /\ (~te) => {r \in done.tokens : r.user_id = a} = {}
            /\ (~ue) => done.users[a].status = "active"
            /\ failed.outcome = "ResetFailed"
            /\ failed.devices = devices
            /\ failed.tokens = tokens
            /\ failed.users = users

\* C19 witness: a blocked student with a device row and a refresh token row,
\* for whom a reset whose two secondary writes fail returns success, removes
\* the device rows and leaves the token rows and the blocked status
C19_Witness ==
    \E a \in Students :
        LET res == ResetStudentDevicesResult(users, devices, tokens, a, FALSE, TRUE, TRUE)
        IN  /\ users[a].status = "blocked"
            /\ DevicesOf(devices, a) # {}
            /\ res.outcome = "ok"
            /\ DevicesOf(res.devices, a) = {}
            /\ \E r \in res.tokens : r.user_id = a
            /\ res.users[a].status = "blocked"

\* C16: setGlobalDeviceLimit with a value other than 1 or 2 fails with
\* InvalidPolicyValue and leaves the settings as they were; and in every
\* reachable state a stored max_devices_per_student is "1" or "2" and the
\* limit the login check reads is 1 or 2.
C16_LimitDomain ==
    /\ \A n \in {0, 3} :
          /\ SetGlobalDeviceLimitResult(settings, n).outcome = "InvalidPolicyValue"
          /\ SetGlobalDeviceLimitResult(settings, n).settings = settings
    /\ settings.max_devices_per_student \in {NoRow, "1", "2"}
    /\ MaxDevicesOf(settings) \in {1, 2}

\* C16 witness: the stored limit has been set to 2, and a call with 3 is
\* refused there
C16_Witness ==
    /\ settings.max_devices_per_student = "2"
    /\ SetGlobalDeviceLimitResult(settings, 3).outcome = "InvalidPolicyValue"

\* C17: whenever setGlobalDeviceLimit(n) returns success, getGlobalDeviceLimit
\* and the limit read by the login check are n right after it, also when no
\* max_devices_per_student row exists.
C17_LimitImmediate ==
    \A n \in 0..3 :
        LET res == SetGlobalDeviceLimitResult(settings, n)
        IN  res.outcome = "ok" =>
              /\ GetGlobalDeviceLimit(res.settings) = n
              /\ MaxDevicesOf(res.settings) = n

\* C18: after toggleDeviceEnforcement(enabled) the stored
\* device_tracking_enabled is the string of enabled, whether or not the row
\* existed; the login check and validateDevice read it as enabled; and a
\* second call with the same value leaves the same settings.
C18_ToggleUpsert ==
    \A b \in BOOLEAN :
        LET res == ToggleDeviceEnforcementSettings(settings, b)
        IN  /\ res.device_tracking_enabled = BoolStr(b)
            /\ res.max_devices_per_student = settings.max_devices_per_student
            /\ ToggleDeviceEnforcementSettings(res, b) = res
            /\ \A a \in Students : \A fp \in Fingerprints :
                  \A ch \in CheckDeviceLimit(devices, res, a, fp, now) :
                     /\ (~b) => ch.outcome = "ok" /\ ch.devices = devices
                     /\ (b /\ \E d \in DevicesOf(devices, a) :
                                 d.device_id = fp /\ d.is_blocked)
                          => ch.outcome = "DeviceBlocked"
            /\ \A c \in accessIssued :
                  (c.role = "student" /\ c.deviceId # NoDevice) =>
                     \A hdr \in Fingerprints \ {c.deviceId} :
                        ValidateDevice(c, hdr, res) =
                           IF b THEN "DeviceSessionInvalid" ELSE "ok"

\* C18 witness: the row exists with value "true", a student holds a
\* fingerprint-bound access JWT and has a blocked device row, and a toggle to
\* off stores "false"
C18_Witness ==
    /\ settings.device_tracking_enabled = "true"
    /\ ToggleDeviceEnforcementSettings(settings, FALSE).device_tracking_enabled = "false"
    /\ \E c \in accessIssued :
          /\ c.role = "student" /\ c.deviceId # NoDevice
          /\ \E d \in DevicesOf(devices, c.userId) : d.is_blocked

\* what blockDevice leaves for a student's device row (a, fp): the row blocked,
\* every other device row and every refresh token row as it was, and the
\* sessions issued to that device still passing renew and the request checks
BlockDeviceFrame(a, fp) ==
    LET res == BlockDeviceResult(users, devices, tokens, a, fp)
    IN  /\ res.outcome = "ok"
        /\ res.tokens = tokens
        /\ {d \in res.devices : d.user_id # a \/ d.device_id # fp}
              = {d \in devices : d.user_id # a \/ d.device_id # fp}
        /\ {d \in res.devices : d.user_id = a /\ d.device_id = fp}
              = {[d EXCEPT !.is_blocked = TRUE] :
                    d \in {x \in devices : x.user_id = a /\ x.device_id = fp}}
        /\ \A rt \in refreshIssued :
              (rt.userId = a /\ RefreshOutcome(rt, tokens, now) = "ok")
                 => RefreshOutcome(rt, res.tokens, now) = "ok"
        /\ \A c \in accessIssued :
              (c.userId = a /\ Authenticate(c, users, tokens, now) = "ok")
                 => Authenticate(c, users, res.tokens, now) = "ok"
        /\ \A fp2 \in Fingerprints \ {fp} :
              {x.outcome : x \in LoginResultsIn(users, settings, res.devices,
                                 res.tokens, now, nextId, a, TRUE, fp2)}
                 = {x.outcome : x \in LoginResults(a, TRUE, fp2)}

\* the login outcomes from fingerprint fp right after blockDevice(a, fp)
LoginAfterBlock(a, fp) ==
    LET res == BlockDeviceResult(users, devices, tokens, a, fp)
    IN  {x.outcome : x \in LoginResultsIn(users, settings, res.devices, res.tokens,
                                          now, nextId, a, TRUE, fp)}

\* C20 as stated: blockDevice sets is_blocked on that one device row, changes
\* no refresh token row and no other device row, sessions issued to the device
\* keep passing renew and request validation, and later logins from that
\* fingerprint are refused.
C20_Original ==
    \A a \in Students : \A fp \in Fingerprints :
        (\E d \in devices : d.user_id = a /\ d.device_id = fp) =>
            /\ BlockDeviceFrame(a, fp)
            /\ "ok" \notin LoginAfterBlock(a, fp)

\* C20 as amended: the same frame, and later logins from that fingerprint are
\* refused while enforcement is on (with DeviceBlocked when the account is
\* active); with enforcement off the login check does not read the device rows.
C20_BlockDeviceFrame ==
    \A a \in Students : \A fp \in Fingerprints :
        (\E d \in devices : d.user_id = a /\ d.device_id = fp) =>
            /\ BlockDeviceFrame(a, fp)
            /\ EnforcementOn => "ok" \notin LoginAfterBlock(a, fp)
            /\ (EnforcementOn /\ users[a].status = "active")
                  => LoginAfterBlock(a, fp) = {"DeviceBlocked"}

\* C20 witness: with enforcement on, the device row of the fingerprint an
\* active student's live session was issued to is blocked, and that session
\* still passes renew and the request checks
C20_Witness ==
    \E c \in accessIssued : \E rt \in refreshIssued :
        /\ EnforcementOn
        /\ c.role = "student" /\ c.deviceId # NoDevice
        /\ rt.userId = c.userId /\ rt.tokenId = c.login
        /\ \E d \in devices :
              d.user_id = c.userId /\ d.device_id = c.deviceId /\ d.is_blocked
        /\ RequestOutcome(c, c.deviceId, TRUE) = "ok"
        /\ RefreshOutcome(rt, tokens, now) = "ok"
        /\ \A x \in LoginResults(c.userId, TRUE, c.deviceId) :
              x.outcome = "DeviceBlocked"

\* C21: forceLogoutStudent on a student marks every refresh token row of the
\* account revoked and deletes none, leaves every device row and the rows of
\* other accounts as they were, and right after it every renew and every
\* request of the account is refused; a later login of the student is
\* admitted as it was before.
C21_ForceLogoutFrame ==
    \A a \in Students :
        LET res == ForceLogoutStudentResult(users, devices, tokens, a)
            mine == {r \in tokens : r.user_id = a}
        IN  /\ res.outcome = "ok"
            /\ {r \in res.tokens : r.user_id = a}
                  = {[r EXCEPT !.revoked = TRUE] : r \in mine}
            /\ Cardinality({r \in res.tokens : r.user_id = a}) = Cardinality(mine)
            /\ {r \in res.tokens : r.user_id # a} = {r \in tokens : r.user_id # a}
            /\ res.devices = devices
            /\ \A rt \in refreshIssued :
                  rt.userId = a => RefreshOutcome(rt, res.tokens, now) # "ok"
            /\ \A c \in accessIssued :
                  c.userId = a => Authenticate(c, users, res.tokens, now) # "ok"
            /\ \A fp \in Fingerprints :
                  {x.outcome : x \in LoginResultsIn(users, settings, res.devices,
                                     res.tokens, now, nextId, a, TRUE, fp)}
                     = {x.outcome : x \in LoginResults(a, TRUE, fp)}

\* C21 witness: an active student with a device row holds a session that
\* passes renew and the request checks, and a forced logout there revokes its
\* row and refuses both
C21_Witness ==
    \E c \in accessIssued : \E rt \in refreshIssued :
        LET res == ForceLogoutStudentResult(users, devices, tokens, c.userId)
        IN  /\ c.role = "student" /\ rt.userId = c.userId
            /\ DevicesOf(devices, c.userId) # {}
            /\ Authenticate(c, users, tokens, now) = "ok"
            /\ RefreshOutcome(rt, tokens, now) = "ok"
            /\ \E r \in res.tokens : r.token = rt /\ r.revoked
            /\ Authenticate(c, users, res.tokens, now) = "SessionExpiredElsewhere"
            /\ RefreshOutcome(rt, res.tokens, now) = "SessionExpired"

\* resetStudentDevices applied to the accounts of S one after the other
RECURSIVE ResetEach(_, _)
ResetEach(S, st) ==
    IF S = {} THEN st
    ELSE LET a == CHOOSE x \in S : TRUE
             r == ResetStudentDevicesResult(st.users, st.devices, st.tokens, a,
                                            FALSE, FALSE, FALSE)
         IN  ResetEach(S \ {a}, [users |-> r.users, devices |-> r.devices,
                                 tokens |-> r.tokens])

\* C22: resetAllStudentDevices leaves the tables resetStudentDevices leaves
\* when applied to every student in turn (no device rows, no refresh token
\* rows, status active for each student), leaves the rows of teachers and
\* admins as they were, and reports the number of student accounts.
C22_ResetAllIsBulk ==
    LET all == ResetAllStudentDevicesResult(users, devices, tokens)
        each == ResetEach(Students, [users |-> users, devices |-> devices,
                                     tokens |-> tokens])
    IN  /\ all.devices = each.devices
        /\ all.tokens = each.tokens
        /\ all.users = each.users
        /\ \A a \in Students :
              /\ DevicesOf(all.devices, a) = {}
              /\ {r \in all.tokens : r.user_id = a} = {}
              /\ all.users[a].status = "active"
        /\ \A a \in Staff :
              /\ DevicesOf(all.devices, a) = DevicesOf(devices, a)
              /\ {r \in all.tokens : r.user_id = a} = {r \in tokens : r.user_id = a}
              /\ all.users[a] = users[a]
        /\ all.count = Cardinality(Students)

\* C23: forceLogoutStudent, resetStudentDevices, blockDevice and
\* AuthService.resetDevice each fail for a teacher or admin target and leave
\* its device rows, its refresh token rows and its status as they were.
C23_StaffNotTargets ==
    \A a \in Staff :
        /\ ForceLogoutStudentResult(users, devices, tokens, a).outcome # "ok"
        /\ ForceLogoutStudentResult(users, devices, tokens, a).tokens = tokens
        /\ \A de \in BOOLEAN : \A te \in BOOLEAN : \A ue \in BOOLEAN :
              LET r == ResetStudentDevicesResult(users, devices, tokens, a, de, te, ue)
              IN  /\ r.outcome # "ok"
                  /\ r.devices = devices /\ r.tokens = tokens /\ r.users = users
        /\ \A fp \in Fingerprints :
              LET r == BlockDeviceResult(users, devices, tokens, a, fp)
              IN  r.outcome # "ok" /\ r.devices = devices /\ r.tokens = tokens
        /\ ResetDeviceResult(users, devices, a).outcome # "ok"
        /\ ResetDeviceResult(users, devices, a).devices = devices

\* C24: the device_id stored in every refresh token row equals the deviceId
\* claim of its refresh JWT and is null where the JWT carries no claim; the
\* rows of teachers and admins store null.
C24_StoredBinding ==
    \A r \in tokens :
        /\ r.device_id = r.token.deviceId
        /\ users[r.user_id].role # "student" => r.device_id = NoDevice

\* C26: a login with an unknown email and a login with the email of an
\* existing account and a wrong password get the same answer,
\* InvalidCredentials, whether the existing account is active or blocked.
C26_NoEnumeration ==
    \A a \in Accounts : \A fp \in Fingerprints :
        /\ {r.outcome : r \in LoginResults(NoAccount, FALSE, fp)} = {"InvalidCredentials"}
        /\ {r.outcome : r \in LoginResults(a, FALSE, fp)}
              = {r.outcome : r \in LoginResults(NoAccount, FALSE, fp)}

\* a step in which some unrevoked refresh token row of account a turns revoked
SweepStep(a) ==
    \E r \in tokens :
        /\ r.user_id = a /\ ~r.revoked
        /\ r \notin tokens'
        /\ [r EXCEPT !.revoked = TRUE] \in tokens'

\* C25: while student logins interleave with forceLogoutStudent and with the
\* revoke-all of a fingerprint mismatch: a step that revokes a row of the
\* account revokes every row of the account stored at that step and adds or
\* removes none; a row is inserted unrevoked; and outside such a step an
\* unrevoked row stays unrevoked unless it is deleted. So a row inserted after
\* a sweep's write is not revoked by that sweep.
C25_PointInTimeSweep ==
    [][\A a \in Students :
          /\ SweepStep(a) =>
                {r \in tokens' : r.user_id = a}
                   = {[r EXCEPT !.revoked = TRUE] : r \in {x \in tokens : x.user_id = a}}
          /\ \A r \in tokens' :
                (r.user_id = a /\ ~\E x \in tokens : x.token = r.token) => ~r.revoked
          /\ (~SweepStep(a)) =>
                \A r \in tokens :
                   (r.user_id = a /\ ~r.revoked)
                      => (r \in tokens' \/ ~\E x \in tokens' : x.token = r.token)
      ]_vars

\* C25 witness: both login calls are done, the row of the first was revoked by
\* a sweep that ran before the second inserted its row, and the row of the
\* second is unrevoked
C25_Witness ==
    /\ \A p \in Procs : flight[p].pc = "done"
    /\ \E r1 \in tokens : \E r2 \in tokens :
          /\ r1.user_id = r2.user_id /\ users[r1.user_id].role = "student"
          /\ r1.token.tokenId < r2.token.tokenId
          /\ r1.revoked /\ ~r2.revoked

\* C27, for calls run one at a time: with enforcement on and the settings left
\* as they are, no step takes the number of device rows of a student from
\* within maxDevicesPerStudent to above it.
C27_DeviceCountBound ==
    [][\A a \in Students :
          (/\ EnforcementOn
           /\ settings' = settings
           /\ Cardinality(DevicesOf(devices, a)) <= MaxDevicesOf(settings))
          => Cardinality(DevicesOf(devices', a)) <= MaxDevicesOf(settings)
      ]_vars

\* C28: a student login that is rejected (InvalidCredentials, AccountBlocked,
\* DeviceBlocked, DeviceLimitExceeded) leaves every refresh token row as it
\* was, so a session that passed renew and the request checks before the
\* attempt passes them after it.
C28_RejectedLoginFrame ==
    \A a \in Students : \A pw \in BOOLEAN : \A fp \in Fingerprints :
        \A res \in LoginResults(a, pw, fp) :
            res.outcome # "ok" =>
                /\ res.outcome \in {"InvalidCredentials", "AccountBlocked",
                                     "DeviceBlocked", "DeviceLimitExceeded"}
                /\ res.tokens = tokens
                /\ \A rt \in refreshIssued :
                      RefreshOutcome(rt, tokens, now) = "ok"
                         => RefreshOutcome(rt, res.tokens, now) = "ok"
                /\ \A c \in accessIssued :
                      Authenticate(c, users, tokens, now) = "ok"
                         => Authenticate(c, users, res.tokens, now) = "ok"

\* C28 witness: a student holds a session that passes renew and the request
\* checks while, with enforcement on, a login from another fingerprint is
\* answered DeviceLimitExceeded
C28_Witness ==
    \E c \in accessIssued : \E rt \in refreshIssued : \E fp \in Fingerprints :
        /\ c.role = "student" /\ rt.userId = c.userId
        /\ EnforcementOn
        /\ Authenticate(c, users, tokens, now) = "ok"
        /\ RefreshOutcome(rt, tokens, now) = "ok"
        /\ \A res \in LoginResults(c.userId, TRUE, fp) :
              res.outcome = "DeviceLimitExceeded"

\* C29: a student login whose delete of the prior refresh tokens fails does not
\* insert a new refresh token row beside the rows that survived.
C29_NoIssueOnFailedRemoval ==
    \A a \in Students : \A fp \in Fingerprints :
        ({r \in tokens : r.user_id = a} # {}) =>
            \A res \in LoginResultsFault(users, settings, devices, tokens, now,
                                          nextId, a, TRUE, fp, TRUE) :
                res.tokens = tokens

\* C30: in every step, for every refresh JWT issued so far: a revoked row stays
\* revoked, a row that is gone does not come back, and so a refresh JWT
\* without an unrevoked row is refused by renew in the next state too.
C30_RevocationPermanent ==
    [][\A rt \in refreshIssued :
          /\ (\E r \in tokens : r.token = rt /\ r.revoked)
                => \A x \in tokens' : x.token = rt => x.revoked
          /\ (~\E r \in tokens : r.token = rt)
                => ~\E x \in tokens' : x.token = rt
          /\ UnrevokedRow(tokens, rt) = {}
                => RefreshOutcome(rt, tokens', now') # "ok"
      ]_vars

\* C30 witness: the row of an earlier login is revoked and its refresh JWT,
\* which still verifies, is refused, while the same account has logged in
\* again and renew with the later refresh JWT succeeds
C30_Witness ==
    \E rt1 \in refreshIssued : \E rt2 \in refreshIssued :
        /\ rt1.userId = rt2.userId /\ rt1.tokenId < rt2.tokenId
        /\ \E r \in tokens : r.token = rt1 /\ r.revoked
        /\ ~JwtExpired(rt1, now)
        /\ RefreshOutcome(rt1, tokens, now) = "SessionExpired"
        /\ RefreshOutcome(rt2, tokens, now) = "ok"
====
